---- MODULE Spec2Model ----
(***************************************************************************)
(* Model of GoogleTrendsScraper (src/src/scrapers/GoogleTrendsScraper.ts): *)
(* scrapeAll drives one scrapeCountry run per configured market; each run  *)
(* opens a page, loads the trends table and paginates through it by        *)
(* clicking the next-page control and waiting for the first row to change. *)
(* The browser page is the environment: it shows one page of rows at a     *)
(* time and renders the following one some time after a click.             *)
(***************************************************************************)
EXTENDS Integers, Sequences, FiniteSets, TLC

\* Program constant: const maxPages = 25 in scrapeCountry.
maxPages == 25

\* Bounds of the environment.
MaxRows == 2        \* rows shown by one result page
ShallowDepth == 2   \* result pages of a site whose pages differ in their rows
MaxMarkets == 2     \* configured markets
MaxPageLen == 3     \* rows of a page handed to parseTrendsFromPage on its own
MaxFragments == 3   \* pieces of text a breakdown term is made of
MaxTerms == 3       \* breakdown buttons of a row
MaxTicks == 4       \* ticks of the cron job
MaxRecords == 2     \* trends of a result written to a file
BatchDepth == 1     \* result pages per market when several markets are configured

VARIABLES
  countries,        \* config.countries (market codes)
  siteDepth,        \* number of result pages the scraped site holds per market
  siteRows,         \* the row layouts a result page of the site can have
  status,           \* this.status
  browser,          \* this.browser: "null" | "open"
  apc,              \* position of scrapeAll
  idx,              \* index of the for-loop over config.countries
  results,          \* results array of scrapeAll
  cpc,              \* position of scrapeCountry
  page,             \* the page of the running scrapeCountry: "null" | "open" | "closed"
  currentPage,      \* let currentPage
  allTrends,        \* const allTrends
  result,           \* const result: ScrapeResult
  firstRowTextBeforeClick,
  dom,              \* what the browser page shows
  pending,          \* a click whose new content is not rendered yet
  reason,           \* why the pagination run ended (observation only)
  seen,             \* content shown at each extraction of the run (observation only)
  shown,            \* rows of every content page rendered in the run (observation only)
  clicks,           \* clicks on the next-page control in the run (observation only)
  lastClickPage,    \* page index at the latest click (observation only)
  stopCalled,       \* stop() was called during scrapeAll (observation only)
  caught,           \* the rejection that reached the catch of scrapeAll (observation only)
  mpc,              \* position of main
  mainResult,       \* what main hands to its caller
  upserted,         \* rows of the google_trends table written by this run
  cache,            \* let cache (scraper.ts)
  diskCache,        \* content of CACHE_FILE
  trendsToAnalyze,  \* const trendsToAnalyze, each trend with the analysis attached to it
  bi,               \* the i of the batch loop
  calls,            \* calls of analyzeCommercialIntentBatch: batch start and outcome (observation only)
  outFile,          \* the output files written, each by its content
  jobs,             \* position of every runScrapingJob call the scheduler has made
  arg,              \* << argument >> of the helper under evaluation
  ret               \* << its return value >>

vars == << countries, siteDepth, siteRows, status, browser, apc, idx, results, cpc, page,
           currentPage, allTrends, result, firstRowTextBeforeClick, dom, pending,
           reason, seen, shown, clicks, lastClickPage, stopCalled, caught,
           mpc, mainResult, upserted, cache, diskCache, trendsToAnalyze, bi, calls,
           outFile, jobs, arg, ret >>

confVars == << countries, siteDepth, siteRows >>
schedVars == << jobs >>
batchVars == << status, browser, apc, idx, results, stopCalled, caught >>
localVars == << currentPage, allTrends, result, firstRowTextBeforeClick >>
obsVars == << reason, seen, shown, clicks, lastClickPage >>
sinkVars == << mainResult, upserted, outFile >>
enrichVars == << cache, diskCache, trendsToAnalyze, bi, calls >>
fnVars == << arg, ret >>
mainVars == << mpc, sinkVars, enrichVars, fnVars >>

----------------------------------------------------------------------------
(* The page shown by the browser *)

NULL == "null"

\* A row of the table: well-formed with an active status icon ("ok") or without
\* one ("lasted"), without its title, volume or time cell, with a title cell of
\* blank text, or detached while it is read (page.evaluate rejects).
RowKinds == {"ok", "lasted", "noTitle", "noVolume", "noTime", "emptyTitle", "throws"}

\* Row layouts of a plain site: no row, one row without a title element, or one
\* well-formed row.
PlainShapes == { <<>>, <<"noTitle">>, <<"ok">> }

\* Row layouts of a site whose pages differ in length: up to MaxRows well-formed
\* rows.
RowShapes == { [i \in 1..n |-> "ok"] : n \in 0..MaxRows }

\* Row layouts of a site whose pages differ in their rows: none, one without a
\* title element, a well-formed row followed by one without a title element, or
\* one whose status icon is not the active one.
MixedShapes == { <<>>, <<"noTitle">>, <<"ok", "noTitle">>, <<"lasted">> }

\* The row layout of a site whose first row has no title element and whose
\* second row is well-formed.
UntitledShapes == { <<"noTitle", "ok">> }

\* The sites a configuration of n markets is run against: for one market a deep
\* site of plain pages, shallow sites whose pages differ in their rows, and a
\* site of a single page whose first row has no title.
Sites(n) ==
  IF n <= 1
    THEN { [depth |-> maxPages + 1, rows |-> PlainShapes],
           [depth |-> ShallowDepth, rows |-> RowShapes],
           [depth |-> ShallowDepth, rows |-> MixedShapes],
           [depth |-> 1, rows |-> UntitledShapes] }
    ELSE { [depth |-> BatchDepth, rows |-> PlainShapes] }

NextStates == {"absent", "disabled", "enabled"}

BlankDom == [content |-> 0, rows |-> <<>>, next |-> "absent"]

\* A content page of the site: its number, its rows and its next-page control.
Contents(c) == { [content |-> c, rows |-> r, next |-> n] : r \in siteRows, n \in NextStates }

----------------------------------------------------------------------------
(* Pure parts of scrapeCountry *)

\* status: statusEl?.className?.includes('active') ? 'active' : 'lasted'
StatusOf(kind) == IF kind = "ok" THEN "active" ELSE "lasted"

\* page.evaluate on one row: null when the title, volume or time cell is missing,
\* a rejection (caught per row) when the row cannot be read, else the row's data.
Evaluates(kind) == kind \notin {"noTitle", "noVolume", "noTime", "throws"}

\* if (trendData && trendData.title) ... if (validateTrendItem(trend)) push:
\* nothing for a row without data or with a blank title, else the row's record,
\* identified by market, content page and row position, with its status.
RowData(m, d, i) ==
  IF Evaluates(d.rows[i]) /\ d.rows[i] # "emptyTitle"
    THEN << <<m, d.content, i, StatusOf(d.rows[i])>> >>
    ELSE <<>>

\* for (const element of trendElements) leaving the loop at the first row that
\* yields no data.
RECURSIVE ParseFromStopping(_, _, _)
ParseFromStopping(m, d, i) ==
  IF i > Len(d.rows) \/ ~Evaluates(d.rows[i]) THEN <<>>
  ELSE RowData(m, d, i) \o ParseFromStopping(m, d, i + 1)

RECURSIVE ParseFrom(_, _, _)
ParseFrom(m, d, i) ==
  IF i > Len(d.rows) THEN <<>> ELSE RowData(m, d, i) \o ParseFrom(m, d, i + 1)

\* parseTrendsFromPage: the records of the well-formed rows, in row order.
ParseTrendsFromPage(m, d) == ParseFrom(m, d, 1)

\* The text of no element (the null of .catch(() => null)).
NoText == 0

\* The text of a blank title cell.
EmptyText == -1

\* The content page an extraction read when page.$$ rejected: none.
Unread == 0

\* page.$eval(firstRowSelector, textContent).catch(() => null): the title text of
\* the first row, which names the content page it belongs to, or null when the
\* first row or its title element is missing.
FirstRowText(d) ==
  IF Len(d.rows) = 0 \/ d.rows[1] = "noTitle" THEN NoText
  ELSE IF d.rows[1] = "emptyTitle" THEN EmptyText
  ELSE d.content

\* The predicate polled by page.waitForFunction after the click:
\* !firstRow || firstRow.textContent?.trim() !== initialText
ContentChanged(d, initialText) ==
  FirstRowText(d) = NoText \/ FirstRowText(d) # initialText

\* The loop guard letting one page more through.
LoopGuardOffByOne(cp) == cp <= maxPages + 1

\* while (currentPage <= maxPages)
LoopGuard(cp) == cp <= maxPages

\* The empty-page break without its currentPage > 1 condition.
EmptyBreakAnyPage(n, cp) == n = 0

\* The empty-page break left out.
EmptyBreakNever(n, cp) == FALSE

\* if (trendsOnCurrentPage.length === 0 && currentPage > 1) break
EmptyBreak(n, cp) == n = 0 /\ cp > 1

\* Assigning the page's records instead of appending them.
PushReplacing(all, new) == new

\* allTrends.push(...trendsOnCurrentPage)
Push(all, new) == all \o new

\* Reading a property the control never has.
IsDisabledNever(d) == FALSE

\* page.$eval(nextButtonSelector, button => button.disabled)
IsDisabled(d) == d.next = "disabled"

\* const result = { country, timestamp, trends: [], success: false }
NewResult(m) == [country |-> m, trends |-> <<>>, success |-> FALSE, error |-> NULL]

\* result.success = true without result.trends = allTrends.
CompletedWithoutTrends(res, trends) == [res EXCEPT !.success = TRUE]

\* result.trends = allTrends; result.success = true
Completed(res, trends) == [res EXCEPT !.trends = trends, !.success = TRUE]

\* The catch block setting result.success as well.
FailedWithSuccess(res, msg) == [res EXCEPT !.error = msg, !.success = TRUE]

\* catch (error) { result.error = errorMessage }
Failed(res, msg) == [res EXCEPT !.error = msg]

----------------------------------------------------------------------------
(* Initial state: a scraper constructed with its configuration *)

\* A scraper with no browser and no scrapeCountry call running.
AtRest ==
  /\ status = "IDLE"
  /\ browser = NULL
  /\ idx = 0
  /\ cpc = "idle"
  /\ page = NULL
  /\ currentPage = 0
  /\ allTrends = <<>>
  /\ result = NewResult(0)
  /\ firstRowTextBeforeClick = NoText
  /\ dom = BlankDom
  /\ pending = FALSE
  /\ reason = "none"
  /\ seen = <<>>
  /\ shown = <<>>
  /\ clicks = 0
  /\ lastClickPage = 0
  /\ stopCalled = FALSE
  /\ caught = "none"

\* new GoogleTrendsScraper(config): scrapeAll not called yet.
Constructed == AtRest /\ apc = "idle" /\ results = <<>>

\* An in-memory or on-disk cache without entries.
EmptyCache == << >>

\* main has returned nothing yet.
NotReturned ==
  [success |-> FALSE, totalTrends |-> 0, insertedCount |-> 0, error |-> NULL]

\* main has written to no sink and has not returned.
NothingWritten ==
  /\ mainResult = NotReturned
  /\ upserted = <<>>
  /\ outFile = <<>>

\* main has not reached its analysis.
NothingAnalysed ==
  /\ cache = EmptyCache
  /\ trendsToAnalyze = <<>>
  /\ bi = 0
  /\ calls = <<>>

\* main has not been called, and no earlier run left a cache file.
MainIdle ==
  /\ mpc = "idle"
  /\ NothingWritten
  /\ NothingAnalysed
  /\ diskCache = EmptyCache

\* No helper under evaluation.
NoCall == arg = <<>> /\ ret = <<>>

\* The scheduler has run no job.
NoJob == jobs = <<>>

Init ==
  /\ \E n \in 0..MaxMarkets :
       /\ countries = [i \in 1..n |-> i]
       /\ \E s \in Sites(n) : siteDepth = s.depth /\ siteRows = s.rows
  /\ Constructed
  /\ MainIdle
  /\ NoCall
  /\ NoJob

----------------------------------------------------------------------------
(* scrapeCountry: the ways its loop and its try block are left *)

\* break (or the loop guard failing): lines 218-219, then finally with a page.
LeaveLoop(why, trends) ==
  /\ result' = Completed(result, trends)
  /\ reason' = why
  /\ cpc' = "close"

\* An awaited call rejects inside the try block: lines 222-225, then finally.
Throw(msg) ==
  /\ result' = Failed(result, msg)
  /\ reason' = "error"
  /\ cpc' = IF page' = "open" THEN "close" ELSE "returned"

----------------------------------------------------------------------------
(* scrapeCountry, one action per awaited call *)

\* page = await this.browser.newPage()
NewPage ==
  /\ apc = "country" /\ cpc = "newPage"
  /\ \/ /\ page' = "open"
        /\ cpc' = "goto"
        /\ UNCHANGED << result, reason >>
     \/ /\ page' = page
        /\ Throw("newPage")
  /\ UNCHANGED << confVars, schedVars, mainVars, batchVars, currentPage, allTrends,
                  firstRowTextBeforeClick, dom, pending, seen, shown, clicks,
                  lastClickPage >>

\* await page.setUserAgent(...); await page.goto(url, ...); let currentPage = 1
Goto ==
  /\ apc = "country" /\ cpc = "goto"
  /\ \/ /\ \E d \in Contents(1) : dom' = d /\ shown' = << d.rows >>
        /\ currentPage' = 1
        /\ cpc' = "waitTable"
        /\ UNCHANGED << result, reason, page >>
     \/ /\ page' = page
        /\ Throw("goto")
        /\ UNCHANGED << dom, shown, currentPage >>
  /\ UNCHANGED << confVars, schedVars, mainVars, batchVars, allTrends, firstRowTextBeforeClick,
                  pending, seen, clicks, lastClickPage >>

\* await page.waitForSelector(TREND_TABLE, { timeout: 10000 })
WaitForTable ==
  /\ apc = "country" /\ cpc = "waitTable"
  /\ \/ /\ cpc' = "parse"
        /\ UNCHANGED << result, reason, page >>
     \/ /\ page' = page
        /\ Throw("waitForSelector")
  /\ UNCHANGED << confVars, schedVars, mainVars, batchVars, currentPage, allTrends,
                  firstRowTextBeforeClick, dom, pending, seen, shown, clicks,
                  lastClickPage >>

\* parseTrendsFromPage without its outer catch: a rejection of page.$$ goes to
\* the catch of scrapeCountry.
ParseRethrowing ==
  /\ apc = "country" /\ cpc = "parse"
  /\ \/ LET trendsOnCurrentPage == ParseTrendsFromPage(result.country, dom) IN
          /\ allTrends' = Push(allTrends, trendsOnCurrentPage)
          /\ seen' = Append(seen, dom.content)
          /\ page' = page
          /\ IF EmptyBreak(Len(trendsOnCurrentPage), currentPage)
               THEN LeaveLoop("empty", Push(allTrends, trendsOnCurrentPage))
               ELSE cpc' = "findNext" /\ UNCHANGED << result, reason >>
     \/ /\ allTrends' = allTrends
        /\ seen' = Append(seen, Unread)
        /\ page' = page
        /\ Throw("parseTrendsFromPage")
  /\ UNCHANGED << confVars, schedVars, mainVars, batchVars, currentPage,
                  firstRowTextBeforeClick, dom, pending, shown, clicks,
                  lastClickPage >>

\* trendsOnCurrentPage = await this.parseTrendsFromPage(page); push; empty check.
\* parseTrendsFromPage returns the records of the rows page.$$ lists, or, when
\* page.$$ rejects, the empty list (its outer catch).
Parse ==
  /\ apc = "country" /\ cpc = "parse"
  /\ \E listed \in BOOLEAN :
       LET trendsOnCurrentPage ==
             IF listed THEN ParseTrendsFromPage(result.country, dom) ELSE <<>>
       IN  /\ allTrends' = Push(allTrends, trendsOnCurrentPage)
           /\ seen' = Append(seen, IF listed THEN dom.content ELSE Unread)
           /\ IF EmptyBreak(Len(trendsOnCurrentPage), currentPage)
                THEN LeaveLoop("empty", Push(allTrends, trendsOnCurrentPage))
                ELSE cpc' = "findNext" /\ UNCHANGED << result, reason >>
  /\ UNCHANGED << confVars, schedVars, mainVars, batchVars, page, currentPage,
                  firstRowTextBeforeClick, dom, pending, shown, clicks,
                  lastClickPage >>

\* nextButton = await page.$(nextButtonSelector); if (!nextButton) break
FindNext ==
  /\ apc = "country" /\ cpc = "findNext"
  /\ \/ /\ IF dom.next = "absent"
             THEN LeaveLoop("no-control", allTrends)
             ELSE cpc' = "evalDisabled" /\ UNCHANGED << result, reason >>
        /\ UNCHANGED << allTrends, page >>
     \/ /\ page' = page /\ allTrends' = allTrends
        /\ Throw("nextButton")
  /\ UNCHANGED << confVars, schedVars, mainVars, batchVars, currentPage,
                  firstRowTextBeforeClick, dom, pending, seen, shown, clicks,
                  lastClickPage >>

\* isNextButtonDisabled = await page.$eval(...); if (isNextButtonDisabled) break
\* ($eval rejects when the control is gone by now)
EvalDisabled ==
  /\ apc = "country" /\ cpc = "evalDisabled"
  /\ \/ /\ dom.next # "absent"
        /\ IF IsDisabled(dom)
             THEN LeaveLoop("disabled", allTrends)
             ELSE cpc' = "capture" /\ UNCHANGED << result, reason >>
        /\ UNCHANGED << allTrends, page >>
     \/ /\ page' = page /\ allTrends' = allTrends
        /\ Throw("nextButton")
  /\ UNCHANGED << confVars, schedVars, mainVars, batchVars, currentPage,
                  firstRowTextBeforeClick, dom, pending, seen, shown, clicks,
                  lastClickPage >>

\* firstRowTextBeforeClick = await page.$eval(firstRowSelector, ...).catch(() => null)
Capture ==
  /\ apc = "country" /\ cpc = "capture"
  /\ firstRowTextBeforeClick' = FirstRowText(dom)
  /\ cpc' = "click"
  /\ UNCHANGED << confVars, schedVars, mainVars, batchVars, page, currentPage, allTrends, result,
                  dom, pending, obsVars >>

\* page.click(nextButtonSelector) followed by currentPage++ without the wait for
\* the content to change.
ClickWithoutWait ==
  /\ apc = "country" /\ cpc = "click"
  /\ \/ /\ dom.next # "absent"
        /\ pending' = (pending \/ dom.next = "enabled")
        /\ clicks' = clicks + 1
        /\ lastClickPage' = currentPage
        /\ currentPage' = currentPage + 1
        /\ IF LoopGuard(currentPage')
             THEN cpc' = "waitTable" /\ UNCHANGED << result, reason >>
             ELSE LeaveLoop("page-cap", allTrends)
        /\ page' = page
     \/ /\ page' = page
        /\ Throw("click")
        /\ UNCHANGED << pending, clicks, lastClickPage, currentPage >>
  /\ UNCHANGED << confVars, schedVars, mainVars, batchVars, allTrends,
                  firstRowTextBeforeClick, dom, seen, shown >>

\* await page.click(nextButtonSelector): the click lands on the control (and
\* starts a content update when the control is enabled), or click rejects
Click ==
  /\ apc = "country" /\ cpc = "click"
  /\ \/ /\ dom.next # "absent"
        /\ pending' = (pending \/ dom.next = "enabled")
        /\ clicks' = clicks + 1
        /\ lastClickPage' = currentPage
        /\ cpc' = "wait"
        /\ UNCHANGED << result, reason, page >>
     \/ /\ page' = page
        /\ Throw("click")
        /\ UNCHANGED << pending, clicks, lastClickPage >>
  /\ UNCHANGED << confVars, schedVars, mainVars, batchVars, currentPage, allTrends,
                  firstRowTextBeforeClick, dom, seen, shown >>

\* await page.waitForFunction(...) resolves; currentPage++; the loop guard
WaitChanged ==
  /\ apc = "country" /\ cpc = "wait"
  /\ ContentChanged(dom, firstRowTextBeforeClick)
  /\ currentPage' = currentPage + 1
  /\ allTrends' = allTrends
  /\ IF LoopGuard(currentPage')
       THEN cpc' = "waitTable" /\ UNCHANGED << result, reason >>
       ELSE LeaveLoop("page-cap", allTrends)
  /\ UNCHANGED << confVars, schedVars, mainVars, batchVars, page, firstRowTextBeforeClick, dom,
                  pending, seen, shown, clicks, lastClickPage >>

\* The time-out of waitForFunction left to the outer catch.
WaitTimeoutRethrown ==
  /\ apc = "country" /\ cpc = "wait"
  /\ ~ ContentChanged(dom, firstRowTextBeforeClick)
  /\ page' = page
  /\ Throw("waitForFunction")
  /\ UNCHANGED << confVars, schedVars, mainVars, batchVars, currentPage, allTrends,
                  firstRowTextBeforeClick, dom, pending, seen, shown, clicks,
                  lastClickPage >>

\* await page.waitForFunction(...) times out: catch (e) { break }
WaitTimeout ==
  /\ apc = "country" /\ cpc = "wait"
  /\ ~ ContentChanged(dom, firstRowTextBeforeClick)
  /\ allTrends' = allTrends
  /\ LeaveLoop("advance-timeout", allTrends)
  /\ UNCHANGED << confVars, schedVars, mainVars, batchVars, page, currentPage,
                  firstRowTextBeforeClick, dom, pending, seen, shown, clicks,
                  lastClickPage >>

\* The site renders the next content page in place, some time after a click.
Render ==
  /\ pending /\ page = "open"
  /\ dom.content < siteDepth
  /\ \E d \in Contents(dom.content + 1) : dom' = d /\ shown' = Append(shown, d.rows)
  /\ pending' = FALSE
  /\ UNCHANGED << confVars, schedVars, mainVars, batchVars, cpc, page, localVars, reason, seen,
                  clicks, lastClickPage >>

\* The locals of scrapeCountry and the page it drove, once the call is over.
CallOver ==
  /\ currentPage' = 0
  /\ allTrends' = <<>>
  /\ result' = NewResult(0)
  /\ firstRowTextBeforeClick' = NoText
  /\ dom' = BlankDom
  /\ pending' = FALSE
  /\ reason' = "none"
  /\ seen' = <<>>
  /\ shown' = <<>>
  /\ clicks' = 0
  /\ lastClickPage' = 0

\* finally { if (page) await page.close() }: the page closes and scrapeCountry
\* returns result, or close() rejects and the rejection leaves scrapeCountry
\* for the catch of scrapeAll (this.status = ERROR, then its finally).
ClosePage ==
  /\ apc = "country" /\ cpc = "close"
  /\ \/ /\ page' = "closed"
        /\ cpc' = "returned"
        /\ dom' = BlankDom
        /\ pending' = FALSE
        /\ UNCHANGED << batchVars, localVars, obsVars >>
     \/ /\ page' = page
        /\ cpc' = "idle"
        /\ apc' = "cleanup"
        /\ status' = "ERROR"
        /\ caught' = "pageClose"
        /\ CallOver
        /\ UNCHANGED << browser, idx, results, stopCalled >>
  /\ UNCHANGED << confVars, schedVars, mainVars >>

\* scraper.scrapeCountry(country) called by a client on a scraper that was not
\* initialised: if (!this.browser) { result.error = ...; return result }
ScrapeCountry ==
  /\ mpc = "idle" /\ apc = "idle" /\ cpc = "idle"
  /\ browser = NULL
  /\ \E country \in 1..MaxMarkets : result' = Failed(NewResult(country), "noBrowser")
  /\ apc' = "single"
  /\ cpc' = "returned"
  /\ UNCHANGED << confVars, schedVars, mainVars, status, browser, idx, results, stopCalled, caught,
                  page, currentPage, allTrends, firstRowTextBeforeClick, dom, pending,
                  obsVars >>

\* The client has the result of its call.
ScrapeCountryReturned ==
  /\ apc = "single" /\ cpc = "returned"
  /\ apc' = "idle"
  /\ cpc' = "idle"
  /\ CallOver
  /\ UNCHANGED << confVars, schedVars, mainVars, status, browser, idx, results, stopCalled, caught,
                  page >>

----------------------------------------------------------------------------
(* scrapeAll *)

\* const results = await scraper.scrapeAll() in main:
\* this.status = RUNNING; const results = []; await this.initialize()
ScrapeAll ==
  /\ mpc = "scrapeAll"
  /\ apc = "idle"
  /\ status' = "RUNNING"
  /\ results' = <<>>
  /\ apc' = "init"
  /\ UNCHANGED << confVars, schedVars, mainVars, browser, idx, stopCalled, caught, cpc, page,
                  localVars, dom, pending, obsVars >>

\* initialize(): puppeteer.launch resolves, or rejects and initialize rethrows
\* into the catch of scrapeAll.
Initialize ==
  /\ apc = "init"
  /\ IF browser # NULL
       THEN apc' = "loop" /\ idx' = 1 /\ UNCHANGED << browser, status, caught >>
       ELSE \/ /\ browser' = "open"
               /\ apc' = "loop"
               /\ idx' = 1
               /\ UNCHANGED << status, caught >>
            \/ /\ browser' = browser
               /\ apc' = "cleanup"
               /\ idx' = idx
               /\ status' = "ERROR"
               /\ caught' = "launch"
  /\ UNCHANGED << confVars, schedVars, mainVars, results, stopCalled, cpc, page,
                  localVars, dom, pending, obsVars >>

\* for (const country of this.config.countries): the status check, then the call
\* of scrapeCountry up to its first await.
NextCountry ==
  /\ apc = "loop"
  /\ IF idx > Len(countries) \/ status # "RUNNING"
       THEN /\ apc' = "cleanup"
            /\ UNCHANGED << cpc, page, result >>
       ELSE /\ apc' = "country"
            /\ IF browser = NULL
                 THEN /\ result' = Failed(NewResult(countries[idx]), "noBrowser")
                      /\ cpc' = "returned"
                 ELSE /\ result' = NewResult(countries[idx])
                      /\ cpc' = "newPage"
            /\ page' = NULL
  /\ UNCHANGED << confVars, schedVars, mainVars, status, browser, idx, results, stopCalled,
                  caught, currentPage, allTrends, firstRowTextBeforeClick,
                  dom, pending, obsVars >>

\* const result = await this.scrapeCountry(country); results.push(result)
PushResult ==
  /\ apc = "country" /\ cpc = "returned"
  /\ results' = Append(results, result)
  /\ apc' = "delay"
  /\ cpc' = "idle"
  /\ CallOver
  /\ UNCHANGED << confVars, schedVars, mainVars, status, browser, idx, stopCalled, caught, page >>

\* if (this.config.delay > 0) await delay(this.config.delay)
Delay ==
  /\ apc = "delay"
  /\ idx' = idx + 1
  /\ apc' = "loop"
  /\ UNCHANGED << confVars, schedVars, mainVars, status, browser, results, stopCalled, caught,
                  cpc, page, localVars, dom, pending, obsVars >>

\* finally { await this.cleanup(); this.status = IDLE }: browser.close() resolves
\* (a page still open goes with its browser) and this.browser = null, or it
\* rejects and cleanup only logs.
Cleanup ==
  /\ apc = "cleanup"
  /\ IF browser # NULL
       THEN \/ browser' = NULL /\ page' = (IF page = "open" THEN "closed" ELSE page)
            \/ browser' = browser /\ page' = page
       ELSE browser' = browser /\ page' = page
  /\ status' = "IDLE"
  /\ apc' = "done"
  /\ UNCHANGED << confVars, schedVars, mainVars, idx, results, stopCalled, caught, cpc,
                  localVars, dom, pending, obsVars >>

\* stop(): this.status = PAUSED, called while scrapeAll is suspended at an await.
\* scrapeCountry neither reads nor writes this.status, so a call at any of its
\* awaits has the effect of a call made as it returns: only that one is taken.
Stop ==
  /\ \/ apc \in {"init", "delay", "cleanup"}
     \/ apc = "country" /\ cpc = "returned"
  /\ status # "PAUSED"
  /\ status' = "PAUSED"
  /\ stopCalled' = TRUE
  /\ UNCHANGED << confVars, schedVars, mainVars, browser, apc, idx, results, caught, cpc, page,
                  localVars, dom, pending, obsVars >>

----------------------------------------------------------------------------
(* main of the datastore pipeline (src/unnamed/part_002) *)

scraperVars == << batchVars, cpc, page, localVars, dom, pending, obsVars >>

\* return { success: true, summary: { totalTrends, insertedCount, ... } }
Succeeded(total, inserted) ==
  [success |-> TRUE, totalTrends |-> total, insertedCount |-> inserted, error |-> NULL]

\* catch (error) { return { success: false, error: ... } }
MainFailed(msg) ==
  [success |-> FALSE, totalTrends |-> 0, insertedCount |-> 0, error |-> msg]

\* results.reduce((sum, r) => sum + r.trends.length, 0)
RECURSIVE TotalTrends(_)
TotalTrends(rs) ==
  IF rs = <<>> THEN 0 ELSE Len(Head(rs).trends) + TotalTrends(Tail(rs))

\* The loops of saveResultsToSupabase: the active trends of the successful results.
RECURSIVE TrendsToInsert(_)
TrendsToInsert(rs) ==
  IF rs = <<>> THEN <<>>
  ELSE (IF Head(rs).success
          THEN SelectSeq(Head(rs).trends, LAMBDA t : t[4] = "active")
          ELSE <<>>) \o TrendsToInsert(Tail(rs))

\* The conflict columns 'country_code, title' of a row.
ConflictKey(t) == << t[1], <<t[2], t[3]>> >>

\* upsert(rows, { onConflict: 'country_code, title', ignoreDuplicates: true }):
\* a row whose key the table holds already is ignored.
RECURSIVE Upsert(_, _)
Upsert(table, rows) ==
  IF rows = <<>> THEN table
  ELSE IF \E k \in 1..Len(table) : ConflictKey(table[k]) = ConflictKey(Head(rows))
    THEN Upsert(table, Tail(rows))
    ELSE Upsert(Append(table, Head(rows)), Tail(rows))

\* main up to await scraper.scrapeAll(): validateCountries, then
\* ensureDirectoryExists('data') and ('logs'), which reject when a directory
\* cannot be made, then new GoogleTrendsScraper(scraperConfig).
Main ==
  /\ mpc = "idle"
  /\ \/ mpc' = "scrapeAll" /\ mainResult' = mainResult
     \/ mpc' = "done" /\ mainResult' = MainFailed("ensureDirectoryExists")
  /\ UNCHANGED << confVars, schedVars, scraperVars, upserted, outFile, enrichVars, fnVars >>

\* The rows written market by market, after each scrapeCountry.
SaveResultsPerMarket ==
  /\ mpc = "scrapeAll" /\ apc = "delay"
  /\ upserted' = Upsert(upserted, TrendsToInsert(results))
  /\ UNCHANGED << confVars, schedVars, scraperVars, mpc, mainResult, outFile, enrichVars, fnVars >>

\* const insertedCount = await saveResultsToSupabase(results); return { success:
\* true, ... }: no active trend and no call of the datastore, or the upsert
\* stores the rows, or it reports an error, which is logged (return 0).
SaveResultsToSupabase ==
  /\ mpc = "scrapeAll" /\ apc = "done"
  /\ LET rows == TrendsToInsert(results) IN
       IF rows = <<>>
         THEN /\ mainResult' = Succeeded(TotalTrends(results), 0)
              /\ upserted' = upserted
         ELSE \/ /\ upserted' = Upsert(upserted, rows)
                 /\ mainResult' = Succeeded(TotalTrends(results), Len(rows))
              \/ /\ upserted' = upserted
                 /\ mainResult' = Succeeded(TotalTrends(results), 0)
  /\ mpc' = "done"
  /\ UNCHANGED << confVars, schedVars, scraperVars, outFile, enrichVars, fnVars >>

----------------------------------------------------------------------------
(* main of the file pipeline (src/src/scraper.ts), from the return of scrapeAll *)

\* const BATCH_SIZE = 25
BATCH_SIZE == 25

\* A trend without analysis.
NoAnalysis == [id |-> -1, score |-> -1]

\* The cache key `${country}-${title}` of a trend; its title is that of the row
\* it was read from. Country codes are two letters, so the key is the pair.
CacheKey(t) == << t[1], <<t[2], t[3]>> >>

\* cache[key] is set.
Cached(c, t) == CacheKey(t) \in DOMAIN c

\* The score the model gives to a title.
AiScore(t) == (t[2] * 7 + t[3] * 3) % 101

\* allTrends: the trends of the successful results (copies, each with country).
RECURSIVE AllTrends(_)
AllTrends(rs) ==
  IF rs = <<>> THEN <<>>
  ELSE (IF Head(rs).success THEN Head(rs).trends ELSE <<>>) \o AllTrends(Tail(rs))

\* trendsToAnalyze = allTrends.filter(t => !cache[`${t.country}-${t.title}`])
TrendsToAnalyze(rs, c) ==
  LET todo == SelectSeq(AllTrends(rs), LAMBDA t : ~ Cached(c, t))
  IN  [k \in 1..Len(todo) |-> [trend |-> todo[k], analysis |-> NoAnalysis]]

\* trendsToAnalyze.slice(i, i + BATCH_SIZE), as positions of trendsToAnalyze
BatchOf(i, n) == (i + 1) .. (IF i + BATCH_SIZE < n THEN i + BATCH_SIZE ELSE n)

\* inputForAI: id is the index of the trend in the batch
RequestId(k, i) == k - i - 1

\* The item the model returns for request id j of the batch starting at i.
Item(todo, i, j) == [id |-> j, score |-> AiScore(todo[i + j + 1].trend)]

\* What analyzeCommercialIntentBatch can return for a batch of n trends: null
\* (no key, HTTP error, unparsable text), or the parsed array: an item per id in
\* request order, in reverse order, without the item of id 0, or no item.
Responses(todo, i, n) ==
  { << >>,
    [j \in 1..n |-> Item(todo, i, j - 1)],
    [j \in 1..n |-> Item(todo, i, n - j)],
    [j \in 1..(n - 1) |-> Item(todo, i, j)] }

\* batch.forEach((trend, index) => { const analysis = analyses[index];
\*   if (analysis) { trend.analysis = analysis; ... } })
Attach(todo, i, analyses) ==
  [k \in 1..Len(todo) |->
     IF k > i /\ k - i <= Len(analyses)
       THEN [todo[k] EXCEPT !.analysis = analyses[k - i]]
       ELSE todo[k]]

\* ... cache[cacheKey] = analysis, for the trends of the batch in order (a later
\* trend of the same key overwrites an earlier one).
RECURSIVE Store(_, _, _, _)
Store(c, todo, k, last) ==
  IF k > last THEN c
  ELSE Store([key \in DOMAIN c \cup {CacheKey(todo[k].trend)} |->
                IF key = CacheKey(todo[k].trend) THEN todo[k].analysis ELSE c[key]],
             todo, k + 1, last)

\* process.exit(0) after the run, process.exit(1) from catch (error).
Exit(code) ==
  [success |-> code = 0, totalTrends |-> 0, insertedCount |-> 0,
   error |-> IF code = 0 THEN NULL ELSE "exit"]

\* results.forEach(result => result.trends.forEach(trend => { if (cache[cacheKey])
\*   trend.analysis = cache[cacheKey] }))
MergeBack(rs, c) ==
  [r \in 1..Len(rs) |->
     [country |-> rs[r].country, success |-> rs[r].success,
      trends |-> [k \in 1..Len(rs[r].trends) |->
                    [trend |-> rs[r].trends[k],
                     analysis |-> IF Cached(c, rs[r].trends[k])
                                    THEN c[CacheKey(rs[r].trends[k])]
                                    ELSE NoAnalysis]]]]

scrapedVars == << confVars, schedVars, scraperVars >>

\* cache = JSON.parse(await fs.readFile(CACHE_FILE)) or {} when the file cannot
\* be read or parsed; allTrends; trendsToAnalyze; the guard of the batch loop.
LoadCache ==
  /\ mpc = "scrapeAll" /\ apc = "done"
  /\ \E c \in {diskCache, EmptyCache} :
       /\ cache' = c
       /\ trendsToAnalyze' = TrendsToAnalyze(results, c)
       /\ mpc' = IF Len(TrendsToAnalyze(results, c)) > 0 THEN "batch" ELSE "save"
  /\ bi' = 0
  /\ UNCHANGED << scrapedVars, sinkVars, diskCache, calls, fnVars >>

\* const analyses = await analyzeCommercialIntentBatch(batch); if (analyses) ...
AnalyzeBatch ==
  /\ mpc = "batch"
  /\ LET batch == BatchOf(bi, Len(trendsToAnalyze)) IN
       \/ /\ calls' = Append(calls, [start |-> bi, ok |-> FALSE])
          /\ UNCHANGED << trendsToAnalyze, cache >>
       \/ \E analyses \in Responses(trendsToAnalyze, bi, Cardinality(batch)) :
            LET merged == Attach(trendsToAnalyze, bi, analyses) IN
              /\ calls' = Append(calls, [start |-> bi, ok |-> TRUE])
              /\ trendsToAnalyze' = merged
              /\ cache' = Store(cache, merged, bi + 1, bi + Len(analyses))
  /\ mpc' = "writeCache"
  /\ UNCHANGED << scrapedVars, sinkVars, diskCache, bi, fnVars >>

\* await fs.writeFile(CACHE_FILE, JSON.stringify(cache, null, 2)): the file is
\* replaced, or the write fails, before or after the file was truncated, and
\* the error goes to catch (error) { process.exit(1) }.
WriteCache ==
  /\ mpc = "writeCache"
  /\ \/ /\ diskCache' = cache
        /\ mpc' = "delay"
        /\ UNCHANGED mainResult
     \/ /\ diskCache' \in {diskCache, EmptyCache}
        /\ mpc' = "done"
        /\ mainResult' = Exit(1)
  /\ UNCHANGED << scrapedVars, upserted, outFile, cache, trendsToAnalyze, bi, calls, fnVars >>

\* await delay(1000); i += BATCH_SIZE; i < trendsToAnalyze.length
BatchDelay ==
  /\ mpc = "delay"
  /\ bi' = bi + BATCH_SIZE
  /\ mpc' = IF bi + BATCH_SIZE < Len(trendsToAnalyze) THEN "batch" ELSE "save"
  /\ UNCHANGED << scrapedVars, sinkVars, cache, diskCache, trendsToAnalyze, calls, fnVars >>

\* The merge of the cache into results, then if (results.length > 0) the write
\* of the output file by saveJsonToFile or saveCsvToFile, which may throw, then
\* process.exit(0).
SaveFile ==
  /\ mpc = "save"
  /\ IF Len(results) > 0
       THEN \/ /\ outFile' = Append(outFile, MergeBack(results, cache))
               /\ mainResult' = Exit(0)
            \/ /\ outFile' = outFile
               /\ mainResult' = Exit(1)
       ELSE outFile' = outFile /\ mainResult' = Exit(0)
  /\ mpc' = "done"
  /\ UNCHANGED << scrapedVars, upserted, enrichVars, fnVars >>

\* The numbers of trends a market returned with: none, one, and one more than a
\* batch holds.
TrendCounts == {0, 1, BATCH_SIZE + 1}

\* k trends of market m, as read from pages of MaxRows rows.
SomeTrends(m, k) ==
  [j \in 1..k |-> <<m, ((j - 1) \div MaxRows) + 1, ((j - 1) % MaxRows) + 1, "active">>]

\* The results scrapeCountry can return for market m: a failure, or a success
\* with some trends.
ResultsOf(m) ==
  {Failed(NewResult(m), "goto")}
    \cup {Completed(NewResult(m), SomeTrends(m, k)) : k \in TrendCounts}

\* The cache file an earlier run left: none, or one with the first trend of
\* market 1.
OldCaches ==
  {EmptyCache,
   [key \in {CacheKey(<<1, 1, 1, "active">>)} |->
      [id |-> 0, score |-> AiScore(<<1, 1, 1, "active">>)]]}

\* main at the return of await scraper.scrapeAll() (line 163), with the results
\* of every configured market.
EnrichInit ==
  /\ \E n \in 0..MaxMarkets :
       /\ countries = [i \in 1..n |-> i]
       /\ \E rs \in [1..n -> UNION {ResultsOf(m) : m \in 1..n}] :
            /\ \A m \in 1..n : rs[m] \in ResultsOf(m)
            /\ results = rs
  /\ siteDepth = maxPages + 1
  /\ siteRows = RowShapes
  /\ NoJob
  /\ AtRest
  /\ apc = "done"
  /\ mpc = "scrapeAll"
  /\ NothingWritten
  /\ NothingAnalysed
  /\ diskCache \in OldCaches
  /\ NoCall

EnrichNext ==
  \/ LoadCache
  \/ AnalyzeBatch
  \/ WriteCache
  \/ BatchDelay
  \/ SaveFile

EnrichSpec == EnrichInit /\ [][EnrichNext]_vars

----------------------------------------------------------------------------
(* TrendsScheduler (src/src/scheduler.ts) *)

\* The cron job fires: onTick is () => this.runScrapingJob(), whose promise is
\* dropped, so the call starts whatever the calls of earlier ticks are doing.
Tick ==
  /\ Len(jobs) < MaxTicks
  /\ jobs' = Append(jobs, "main")
  /\ UNCHANGED << confVars, scraperVars, mainVars >>

\* runScrapingJob: await main(this.config.scraperConfig) is over. The job ends
\* when main failed or threw or no report is to be sent, else it sends one.
RunScrapingJob ==
  /\ \E j \in 1..Len(jobs) :
       /\ jobs[j] = "main"
       /\ \E next \in {"report", "over"} : jobs' = [jobs EXCEPT ![j] = next]
  /\ UNCHANGED << confVars, scraperVars, mainVars >>

\* await this.sendEmailReport(result.outputFile, result.summary) is over.
SendEmailReport ==
  /\ \E j \in 1..Len(jobs) :
       /\ jobs[j] = "report"
       /\ jobs' = [jobs EXCEPT ![j] = "over"]
  /\ UNCHANGED << confVars, scraperVars, mainVars >>

\* scheduler.start(): the cron job is started and no tick has fired.
SchedulerInit ==
  /\ countries = <<>>
  /\ siteDepth = 1
  /\ siteRows = PlainShapes
  /\ Constructed
  /\ MainIdle
  /\ NoCall
  /\ NoJob

SchedulerNext == Tick \/ RunScrapingJob \/ SendEmailReport

SchedulerSpec == SchedulerInit /\ [][SchedulerNext]_vars

----------------------------------------------------------------------------
(* The helper functions called on their own *)

\* No scraper is running and main has not been entered.
Uncalled ==
  /\ countries = <<>>
  /\ siteDepth = 1
  /\ siteRows = PlainShapes
  /\ NoJob
  /\ Constructed
  /\ MainIdle

\* The pages of up to n rows of any kind.
RECURSIVE PagesOf(_)
PagesOf(n) ==
  IF n = 0 THEN { <<>> }
  ELSE PagesOf(n - 1) \cup { Append(p, k) : p \in { q \in PagesOf(n - 1) : Len(q) = n - 1 },
                                             k \in RowKinds }

\* parseTrendsFromPage(page) on a page showing the rows arg[1]: page.$$ lists
\* them or rejects (outer catch: no record); the call returns whether the rows
\* were listed and the records.
ParseTrendsFromPageCall ==
  /\ arg # <<>> /\ ret = <<>>
  /\ \E listed \in BOOLEAN :
       ret' = << listed,
                IF listed
                  THEN ParseTrendsFromPage(1, [content |-> 1, rows |-> arg[1], next |-> "absent"])
                  ELSE <<>> >>
  /\ UNCHANGED << scrapedVars, mpc, sinkVars, enrichVars, arg >>

ParseInit ==
  /\ Uncalled
  /\ arg \in { <<p>> : p \in PagesOf(MaxPageLen) }
  /\ ret = <<>>

ParseSpec == ParseInit /\ [][ParseTrendsFromPageCall]_vars

\* A string is the sequence of its characters.
Digit == {"0", "1", "2", "3", "4", "5", "6", "7", "8", "9"}

\* \s of a regular expression, and what trim() removes.
Whitespace == {" ", "\t", "\n"}

\* \d+ in a pattern (a pattern is a sequence of characters and of this mark).
Digits == "\\d+"

\* The regular expressions of cleanBreakdown.
MorePattern == <<"+", " ", Digits, " ", "m", "o", "r", "e">>
SearchTermPattern == <<"S", "e", "a", "r", "c", "h", " ", "t", "e", "r", "m">>
QueryStatsPattern == <<"q", "u", "e", "r", "y", "_", "s", "t", "a", "t", "s">>
ExplorePattern == <<"E", "x", "p", "l", "o", "r", "e">>

\* The length of the digit run of s at position i.
RECURSIVE DigitRun(_, _)
DigitRun(s, i) ==
  IF i <= Len(s) /\ s[i] \in Digit THEN 1 + DigitRun(s, i + 1) ELSE 0

\* The length of the match of pat from its j-th element at position i of s, or
\* -1 without a match; \d+ takes the longest run that lets the rest match.
RECURSIVE MatchLen(_, _, _, _)
MatchLen(s, i, pat, j) ==
  IF j > Len(pat) THEN 0
  ELSE IF pat[j] = Digits
    THEN LET fits == { n \in 1..DigitRun(s, i) : MatchLen(s, i + n, pat, j + 1) >= 0 }
         IN  IF fits = {} THEN -1
             ELSE LET n == CHOOSE x \in fits : \A y \in fits : y <= x
                  IN  n + MatchLen(s, i + n, pat, j + 1)
  ELSE IF i <= Len(s) /\ s[i] = pat[j]
    THEN LET rest == MatchLen(s, i + 1, pat, j + 1)
         IN  IF rest < 0 THEN -1 ELSE 1 + rest
  ELSE -1

\* s.replace(/pat/g, ''): the matches are found left to right in s, each search
\* resuming after the previous match, and the result is not searched again.
RECURSIVE RemoveFrom(_, _, _)
RemoveFrom(s, i, pat) ==
  IF i > Len(s) THEN <<>>
  ELSE IF MatchLen(s, i, pat, 1) > 0
    THEN RemoveFrom(s, i + MatchLen(s, i, pat, 1), pat)
    ELSE <<s[i]>> \o RemoveFrom(s, i + 1, pat)

RemoveAll(s, pat) == RemoveFrom(s, 1, pat)

\* s.trim()
RECURSIVE TrimStart(_)
TrimStart(s) ==
  IF s # <<>> /\ Head(s) \in Whitespace THEN TrimStart(Tail(s)) ELSE s

RECURSIVE TrimEnd(_)
TrimEnd(s) ==
  IF s # <<>> /\ s[Len(s)] \in Whitespace THEN TrimEnd(SubSeq(s, 1, Len(s) - 1)) ELSE s

Trim(s) == TrimEnd(TrimStart(s))

\* s.replace(/\s+/g, ' ')
RECURSIVE CollapseFrom(_, _)
CollapseFrom(s, i) ==
  IF i > Len(s) THEN <<>>
  ELSE IF s[i] \in Whitespace
    THEN IF i > 1 /\ s[i - 1] \in Whitespace
           THEN CollapseFrom(s, i + 1)
           ELSE <<" ">> \o CollapseFrom(s, i + 1)
    ELSE <<s[i]>> \o CollapseFrom(s, i + 1)

CollapseWhitespace(s) == CollapseFrom(s, 1)

cleanBreakdown(breakdown) ==
  CollapseWhitespace(Trim(RemoveAll(RemoveAll(RemoveAll(RemoveAll(breakdown,
    MorePattern), SearchTermPattern), QueryStatsPattern), ExplorePattern)))

\* Pieces of text of a data-term attribute.
Fragments ==
  { <<"E", "x", "p">>,
    <<"l", "o", "r", "e">>,
    <<"E", "x", "p", "l", "o", "r", "e">>,
    <<"S", "e", "a", "r", "c", "h", " ">>,
    <<" ", "t", "e", "r", "m">>,
    <<"t", "e", "r", "m">>,
    <<"q", "u", "e", "r", "y", "_", "s", "t", "a", "t", "s">>,
    <<"+", " ">>,
    <<" ", "3", " ", "m", "o", "r", "e">>,
    <<"3", " ", "m", "o", "r", "e">>,
    <<"a">>,
    <<" ">> }

RECURSIVE Concat(_)
Concat(fs) == IF fs = <<>> THEN <<>> ELSE Head(fs) \o Concat(Tail(fs))

\* The strings made of up to MaxFragments pieces.
BreakdownTerms ==
  { Concat(fs) : fs \in UNION { [1..n -> Fragments] : n \in 0..MaxFragments } }

\* cleanBreakdown(arg[1])
CleanBreakdownCall ==
  /\ arg # <<>> /\ ret = <<>>
  /\ ret' = << cleanBreakdown(arg[1]) >>
  /\ UNCHANGED << scrapedVars, mpc, sinkVars, enrichVars, arg >>

CleanInit ==
  /\ Uncalled
  /\ arg \in { <<s>> : s \in BreakdownTerms }
  /\ ret = <<>>

CleanSpec == CleanInit /\ [][CleanBreakdownCall]_vars

\* [...new Set(terms)]: the terms without the later copies of a term.
RECURSIVE UniqueTerms(_)
UniqueTerms(terms) ==
  IF terms = <<>> THEN <<>>
  ELSE LET front == UniqueTerms(SubSeq(terms, 1, Len(terms) - 1))
           last == terms[Len(terms)]
       IN  IF \E i \in 1..Len(front) : front[i] = last THEN front
           ELSE Append(front, last)

\* terms.join(', ')
RECURSIVE Join(_)
Join(terms) ==
  IF terms = <<>> THEN <<>>
  ELSE IF Len(terms) = 1 THEN terms[1]
  ELSE terms[1] \o <<",", " ">> \o Join(Tail(terms))

\* uniqueTerms.map(term => cleanBreakdown(term)).filter(term => term).join(', ')
cleanedBreakdownString(breakdown) ==
  LET uniqueTerms == UniqueTerms(breakdown)
      cleaned == [i \in 1..Len(uniqueTerms) |-> cleanBreakdown(uniqueTerms[i])]
  IN  Join(SelectSeq(cleaned, LAMBDA term : term # <<>>))

\* The data-term attributes of the breakdown buttons of a row, trimmed: a term,
\* a term followed by a label of the page, a label alone, nothing.
DataTerms ==
  { <<"a">>, <<"b">>, <<"a", "E", "x", "p", "l", "o", "r", "e">>,
    <<"E", "x", "p", "l", "o", "r", "e">>, <<"a", " ", "b">>, <<>> }

\* The breakdown arrays of up to MaxTerms buttons.
Breakdowns == UNION { [1..n -> DataTerms] : n \in 0..MaxTerms }

\* The breakdown of the record parseTrendsFromPage makes of a row whose
\* breakdown array is arg[1].
BreakdownCall ==
  /\ arg # <<>> /\ ret = <<>>
  /\ ret' = << cleanedBreakdownString(arg[1]) >>
  /\ UNCHANGED << scrapedVars, mpc, sinkVars, enrichVars, arg >>

BreakdownInit ==
  /\ Uncalled
  /\ arg \in { <<b>> : b \in Breakdowns }
  /\ ret = <<>>

BreakdownSpec == BreakdownInit /\ [][BreakdownCall]_vars

----------------------------------------------------------------------------
(* saveCsvToFile (src/src/utils/helpers.ts) and the reader of the report,
   EmailService.parseCsvFile (src/unnamed/part_007) *)

\* parts.join(sep)
RECURSIVE JoinBy(_, _)
JoinBy(parts, sep) ==
  IF parts = <<>> THEN <<>>
  ELSE IF Len(parts) = 1 THEN parts[1]
  ELSE parts[1] \o sep \o JoinBy(Tail(parts), sep)

\* s.replace(/"/g, '""')
RECURSIVE EscapeQuotes(_)
EscapeQuotes(s) ==
  IF s = <<>> THEN <<>>
  ELSE (IF Head(s) = "\"" THEN <<"\"", "\"">> ELSE << Head(s) >>) \o EscapeQuotes(Tail(s))

\* `"${s}"`
Quoted(s) == <<"\"">> \o s \o <<"\"">>

\* const headers = [...]
headers ==
  << <<"C", "o", "u", "n", "t", "r", "y">>,
    <<"T", "i", "m", "e", "s", "t", "a", "m", "p">>,
    <<"T", "i", "t", "l", "e">>,
    <<"S", "e", "a", "r", "c", "h", " ", "V", "o", "l", "u", "m", "e">>,
    <<"T", "i", "m", "e", " ", "S", "t", "a", "r", "t", "e", "d">>,
    <<"B", "r", "e", "a", "k", "d", "o", "w", "n">>,
    <<"S", "t", "a", "t", "u", "s">>,
    <<"C", "o", "m", "m", "e", "r", "c", "i", "a", "l", " ", "I", "n", "t", "e", "n", "t", " ", "S", "c", "o", "r", "e">> >>

\* The row of a trend of a result; a trend without analysis has the score ''.
RowOf(res, trend) ==
  JoinBy(<< Quoted(res.name), Quoted(res.timestamp), Quoted(EscapeQuotes(trend.title)),
            Quoted(trend.searchVolume), Quoted(trend.timeStarted),
            Quoted(trend.breakdown), Quoted(trend.status), Quoted(<<>>) >>, <<",">>)

\* The rows of the trends of the results from the i-th on, those of the results
\* with success and at least one trend.
RECURSIVE RowsFrom(_, _)
RowsFrom(rs, i) ==
  IF i > Len(rs) THEN <<>>
  ELSE (IF rs[i].success /\ Len(rs[i].trends) > 0
          THEN [k \in 1..Len(rs[i].trends) |-> RowOf(rs[i], rs[i].trends[k])]
          ELSE <<>>) \o RowsFrom(rs, i + 1)

\* saveCsvToFile: csvContent
csvContent(rs) == JoinBy(<< JoinBy(headers, <<",">>) >> \o RowsFrom(rs, 1), <<"\n">>)

\* parseCsvFile before the first character: the variables of its loop, and
\* whether the character that follows was consumed with this one.
Blank ==
  [rows |-> <<>>, currentRow |-> <<>>, currentField |-> <<>>, inQuotes |-> FALSE,
   skip |-> FALSE]

\* The end of a row: currentRow.push(currentField.trim()), and rows.push
\* (currentRow) when a field of it is not empty.
EndRow(st) ==
  IF st.currentField # <<>> \/ Len(st.currentRow) > 0
    THEN LET row == Append(st.currentRow, Trim(st.currentField))
         IN  [st EXCEPT !.rows = IF \E k \in 1..Len(row) : row[k] # <<>>
                                   THEN Append(st.rows, row) ELSE st.rows,
                        !.currentRow = <<>>, !.currentField = <<>>]
    ELSE st

\* One turn of the loop of parseCsvFile, at the i-th character of s.
ReadChar(st, s, i) ==
  LET char == s[i]
      follows(c) == i < Len(s) /\ s[i + 1] = c
  IN  IF st.skip THEN [st EXCEPT !.skip = FALSE]
      ELSE IF char = "\""
        THEN IF st.inQuotes /\ follows("\"")
               THEN [st EXCEPT !.currentField = Append(st.currentField, "\""), !.skip = TRUE]
               ELSE [st EXCEPT !.inQuotes = ~st.inQuotes]
      ELSE IF char = "," /\ ~st.inQuotes
        THEN [st EXCEPT !.currentRow = Append(st.currentRow, Trim(st.currentField)),
                        !.currentField = <<>>]
      ELSE IF char \in {"\n", "\r"} /\ ~st.inQuotes
        THEN [EndRow(st) EXCEPT !.skip = char = "\r" /\ follows("\n")]
      ELSE IF char = "\r" THEN st
      ELSE IF char = "\n"
        THEN [st EXCEPT !.currentField = st.currentField \o <<"<", "b", "r", "/", ">">>]
      ELSE [st EXCEPT !.currentField = Append(st.currentField, char)]

\* The loop of parseCsvFile over the characters lo..hi of s: the first half of
\* them, then the second half from the state the first half left.
RECURSIVE ReadChars(_, _, _, _)
ReadChars(st, s, lo, hi) ==
  IF lo > hi THEN st
  ELSE IF lo = hi THEN ReadChar(st, s, lo)
  ELSE LET half == ReadChars(st, s, lo, (lo + hi) \div 2)
       IN  IF half.skip \in BOOLEAN THEN ReadChars(half, s, (lo + hi) \div 2 + 1, hi)
           ELSE half

\* parseCsvFile of a file holding s: { headers, rows }
parseCsvFile(s) ==
  LET rows == EndRow(ReadChars(Blank, s, 1, Len(s))).rows
  IN  IF Len(rows) = 0 THEN [headers |-> <<>>, rows |-> <<>>]
      ELSE [headers |-> [k \in 1..Len(rows[1]) |->
                           Trim(SelectSeq(rows[1][k], LAMBDA c : c # "\""))],
            rows |-> Tail(rows)]

\* The texts of a title and of a breakdown: plain, with a comma, with a double
\* quote, with a line break.
FieldTexts == { <<"a">>, <<"a", ",", " ", "b">>, <<"a", "\"", "b">>, <<"a", "\n", "b">> }

\* The trends of a result.
TrendItems ==
  [title : FieldTexts, searchVolume : {<<"5", "0">>}, timeStarted : {<<"2", "h">>},
   breakdown : FieldTexts, status : {<<"a", "c", "t", "i", "v", "e">>}]

\* The results of a run of one market: it failed, or it returned up to
\* MaxRecords trends.
ResultLists ==
  { <<>>, << [name |-> <<"U", "S">>, timestamp |-> <<"1">>, success |-> FALSE, trends |-> <<>>] >> }
    \cup { << [name |-> <<"U", "S">>, timestamp |-> <<"1">>, success |-> TRUE, trends |-> ts] >> :
             ts \in UNION { [1..n -> TrendItems] : n \in 0..MaxRecords } }

\* saveCsvToFile(arg[1], filePath): the content of the file.
SaveCsvToFile ==
  /\ arg # <<>> /\ ret = <<>>
  /\ ret' = << csvContent(arg[1]) >>
  /\ UNCHANGED << scrapedVars, mpc, sinkVars, enrichVars, arg >>

\* parseCsvFile(filePath) of the file written.
ParseCsvFile ==
  /\ Len(ret) = 1
  /\ ret' = << ret[1], parseCsvFile(ret[1]) >>
  /\ UNCHANGED << scrapedVars, mpc, sinkVars, enrichVars, arg >>

CsvInit ==
  /\ Uncalled
  /\ arg \in { <<rs>> : rs \in ResultLists }
  /\ ret = <<>>

CsvSpec == CsvInit /\ [][SaveCsvToFile \/ ParseCsvFile]_vars

\* A natural number in binary, lowest bit first: the significand of a double
\* is one of Precision bits.
Precision == 53

\* The bits a limb holds (a product of a limb and a thousand is a small number).
LimbBits == 14

\* The number written by up to LimbBits bits.
RECURSIVE Value(_)
Value(b) == IF b = <<>> THEN 0 ELSE Head(b) + 2 * Value(Tail(b))

\* b without its leading zeros.
Strip(b) ==
  LET ones == { i \in 1..Len(b) : b[i] = 1 }
  IN  IF ones = {} THEN <<>> ELSE SubSeq(b, 1, CHOOSE i \in ones : \A j \in ones : j <= i)

\* b * 2^n
ShiftLeft(b, n) == IF b = <<>> THEN b ELSE [i \in 1..n |-> 0] \o b

\* b + 1
Inc(b) ==
  LET zeros == { i \in 1..Len(b) : b[i] = 0 }
      z == IF zeros = {} THEN Len(b) + 1 ELSE CHOOSE i \in zeros : \A j \in zeros : i <= j
  IN  [i \in 1..(IF z > Len(b) THEN z ELSE Len(b)) |->
         IF i < z THEN 0 ELSE IF i = z THEN 1 ELSE b[i]]

\* b in limbs of LimbBits bits, lowest first, and back.
ToLimbs(b) ==
  [j \in 1..((Len(b) + LimbBits - 1) \div LimbBits) |->
     Value(SubSeq(b, LimbBits * (j - 1) + 1,
                  IF LimbBits * j < Len(b) THEN LimbBits * j ELSE Len(b)))]

FromLimbs(ls) ==
  Strip([i \in 1..(LimbBits * Len(ls)) |->
           (ls[((i - 1) \div LimbBits) + 1] \div (2 ^ ((i - 1) % LimbBits))) % 2])

\* ls * c in limbs, for c up to a thousand
RECURSIVE MulCarry(_, _, _, _)
MulCarry(ls, j, c, carry) ==
  IF j > Len(ls) THEN <<carry>>
  ELSE <<(ls[j] * c + carry) % (2 ^ LimbBits)>>
         \o MulCarry(ls, j + 1, c, (ls[j] * c + carry) \div (2 ^ LimbBits))

\* b * c, for c up to a thousand
MulSmall(b, c) == FromLimbs(MulCarry(ToLimbs(b), 1, c, 0))

\* The whole number written by b (less than 2^31).
Whole(b) ==
  LET ls == ToLimbs(b)
  IN  (IF Len(ls) >= 1 THEN ls[1] ELSE 0)
        + (IF Len(ls) >= 2 THEN ls[2] * (2 ^ LimbBits) ELSE 0)
        + (IF Len(ls) >= 3 THEN ls[3] * (2 ^ (2 * LimbBits)) ELSE 0)

\* b^t modulo m
RECURSIVE PowMod(_, _, _)
PowMod(b, t, m) ==
  IF t = 0 THEN 1 % m
  ELSE LET h == PowMod(b, t \div 2, m)
       IN  (((h * h) % m) * (IF t % 2 = 1 THEN b ELSE 1)) % m

\* The digit of weight 2^(-t) of n / 10^k written in binary.
BinaryDigit(n, k, t) ==
  IF t >= 0
    THEN IF ((n % (2 * 10 ^ k)) * PowMod(2, t, 2 * 10 ^ k)) % (2 * 10 ^ k) >= 10 ^ k
           THEN 1 ELSE 0
    ELSE ((n \div (10 ^ k)) \div (2 ^ (0 - t))) % 2

\* The p with 2^p <= n / 10^k < 2^(p+1), for n > 0.
Exponent(n, k) ==
  IF n >= 10 ^ k
    THEN CHOOSE p \in 0..30 : (n \div (10 ^ k)) \div (2 ^ p) = 1
    ELSE 0 - (CHOOSE q \in 1..(4 * k) : 10 ^ k <= n * 2 ^ q /\ n * 2 ^ q < 2 * 10 ^ k)

\* Round to nearest, ties to even, of b (and a fraction below it that is not
\* zero when inexact holds) to Precision bits: the significand m and the number
\* s of bits dropped.
Round53(b, inexact) ==
  IF Len(b) <= Precision THEN [m |-> b, s |-> 0]
  ELSE LET s == Len(b) - Precision
           q == SubSeq(b, s + 1, Len(b))
           sticky == inexact \/ \E i \in 1..(s - 1) : b[i] = 1
           up == b[s] = 1 /\ (sticky \/ q[1] = 1)
       IN  [m |-> IF up THEN Inc(q) ELSE q, s |-> s]

NotANumber == [nan |-> TRUE, m |-> <<>>, e |-> 0]

\* The double nearest to n / 10^k: m * 2^e, from the Precision + 1 leading
\* binary digits of n / 10^k and whether any digit follows them.
Double(n, k) ==
  IF n = 0 THEN [nan |-> FALSE, m |-> <<>>, e |-> 0]
  ELSE LET p == Exponent(n, k)
           lead == [i \in 1..(Precision + 1) |-> BinaryDigit(n, k, Precision + 1 - i - p)]
           rest == ((n % (10 ^ k)) * PowMod(2, Precision - p, 10 ^ k)) % (10 ^ k) # 0
           r == Round53(lead, rest)
       IN  [nan |-> FALSE, m |-> r.m, e |-> p - Precision + r.s]

\* x * c in double arithmetic, for c a thousand or a million.
Times(x, c) ==
  IF x.nan THEN x
  ELSE LET product == IF c > 1000 THEN MulSmall(MulSmall(x.m, 1000), c \div 1000)
                      ELSE MulSmall(x.m, c)
           r == Round53(product, FALSE)
       IN  [nan |-> FALSE, m |-> r.m, e |-> x.e + r.s]

\* The volume of a string that holds no number (NaN).
NaN == -1

\* Math.floor(x)
Floor(x) ==
  IF x.nan THEN NaN
  ELSE IF x.e >= 0 THEN Whole(ShiftLeft(x.m, x.e))
  ELSE Whole(SubSeq(x.m, 1 - x.e, Len(x.m)))

DigitValue(c) == CHOOSE v \in 0..9 : <<"0", "1", "2", "3", "4", "5", "6", "7", "8", "9">>[v + 1] = c

\* The number written by the n digits of s from position i.
RECURSIVE NumberOf(_, _, _)
NumberOf(s, i, n) ==
  IF n = 0 THEN 0 ELSE NumberOf(s, i, n - 1) * 10 + DigitValue(s[i + n - 1])

\* s.replace(/,/g, '')
WithoutCommas(s) == SelectSeq(s, LAMBDA c : c # ",")

\* The decimal number s starts with: its digits as a whole number n and the
\* number k of those after the point (n = -1 when s starts with no number).
DecimalOf(s) ==
  LET a == DigitRun(s, 1)
      b == IF a + 1 <= Len(s) /\ s[a + 1] = "." THEN DigitRun(s, a + 2) ELSE 0
  IN  IF a + b = 0 THEN [n |-> -1, k |-> 0]
      ELSE [n |-> NumberOf(s, 1, a) * (10 ^ b) + NumberOf(s, a + 2, b), k |-> b]

\* n / 10^k without the zeros that end its fraction.
RECURSIVE Shortest(_, _)
Shortest(n, k) ==
  IF k > 0 /\ n % 10 = 0 THEN Shortest(n \div 10, k - 1) ELSE [n |-> n, k |-> k]

\* parseFloat(s)
parseFloat(s) ==
  LET d == DecimalOf(s) IN
    IF d.n < 0 THEN NotANumber ELSE Double(Shortest(d.n, d.k).n, Shortest(d.n, d.k).k)

\* parseInt(s, 10) of a string of digits (NaN without a digit)
parseInt(s) == IF DigitRun(s, 1) = 0 THEN NaN ELSE NumberOf(s, 1, DigitRun(s, 1))

\* The length of the run of characters of the set cs at position i of s.
RECURSIVE RunOf(_, _, _)
RunOf(s, i, cs) == IF i <= Len(s) /\ s[i] \in cs THEN 1 + RunOf(s, i + 1, cs) ELSE 0

\* The ways /^([\d,.]+[KM]?\+?)(.*?)([\d,]+)%?$/ matches s: the lengths of
\* [\d,.]+, [KM]?, \+?, .*?, [\d,]+ and %?.
Matches(s) ==
  { c \in { [n1 |-> t[1], km |-> t[2], plus |-> t[3], mid |-> t[4],
             n3 |-> Len(s) - t[1] - t[2] - t[3] - t[4] - t[5], pct |-> t[5]] :
             t \in (1..RunOf(s, 1, Digit \cup {",", "."})) \X (0..1) \X (0..1)
                     \X (0..Len(s)) \X (0..1) } :
      /\ c.n3 >= 1
      /\ c.km = 1 => s[c.n1 + 1] \in {"K", "M"}
      /\ c.plus = 1 => s[c.n1 + c.km + 1] = "+"
      /\ \A i \in 1..c.mid : s[c.n1 + c.km + c.plus + i] # "\n"
      /\ \A i \in 1..c.n3 : s[c.n1 + c.km + c.plus + c.mid + i] \in Digit \cup {","}
      /\ c.pct = 1 => s[Len(s)] = "%" }

\* The order in which the matches are tried: greedy [\d,.]+, [KM]? and \+?,
\* lazy .*?, greedy [\d,]+.
Priority(s, c) ==
  ((((c.n1 * 2 + c.km) * 2 + c.plus) * (Len(s) + 1)) + (Len(s) - c.mid)) * (Len(s) + 1) + c.n3

\* volumeStr.match(...): the first match tried that succeeds.
Match(s) == CHOOSE c \in Matches(s) : \A o \in Matches(s) : Priority(s, o) <= Priority(s, c)

\* x.toUpperCase().includes(c), for a capital letter c and its small letter l
IncludesLetter(x, c, l) == \E i \in 1..Len(x) : x[i] \in {c, l}

\* middlePart.toLowerCase().includes('down')
IncludesDown(x) ==
  \E i \in 1..(Len(x) - 3) :
    /\ x[i] \in {"d", "D"} /\ x[i + 1] \in {"o", "O"}
    /\ x[i + 2] \in {"w", "W"} /\ x[i + 3] \in {"n", "N"}

\* The volume of volumePart, with the multiplier of K as thousand.
VolumeOf(volumePart, thousand) ==
  LET num == parseFloat(WithoutCommas(volumePart)) IN
    IF IncludesLetter(volumePart, "K", "k") THEN Floor(Times(num, thousand))
    ELSE IF IncludesLetter(volumePart, "M", "m") THEN Floor(Times(num, 1000000))
    ELSE Floor(num)

\* parseComplexSearchVolume(volumeStr): << volume, trend >>
parseComplexSearchVolume(volumeStr) ==
  IF volumeStr = <<>> THEN <<0, 0>>
  ELSE IF Matches(volumeStr) = {} THEN << VolumeOf(volumeStr, 1000), 0 >>
  ELSE LET c == Match(volumeStr)
           volumePart == SubSeq(volumeStr, 1, c.n1 + c.km + c.plus)
           middlePart == SubSeq(volumeStr, c.n1 + c.km + c.plus + 1,
                                c.n1 + c.km + c.plus + c.mid)
           trendPart == SubSeq(volumeStr, c.n1 + c.km + c.plus + c.mid + 1,
                               c.n1 + c.km + c.plus + c.mid + c.n3)
           trendNum == parseInt(WithoutCommas(trendPart))
       IN  << VolumeOf(volumePart, 1000),
              IF IncludesDown(middlePart) THEN 0 - trendNum ELSE trendNum >>

\* The texts of a search-volume cell: a number, K or M, a plus sign, the text of
\* an arrow icon, the number of the trend and a percent sign, each of which can
\* be missing.
VolumeNumbers == { <<"1", "0">>, <<"5", "0", "0">>, <<"2">>, <<"1", ".", "5">>, <<"2", ".", "0", "1">>, <<"1", ",", "2", "0", "0">> }
Scales == { <<>>, <<"K">>, <<"M">> }
Pluses == { <<>>, <<"+">> }
Middles == { <<>>, <<"a", "r", "r", "o", "w", "_", "u", "p", "w", "a", "r", "d">>, <<"a", "r", "r", "o", "w", "_", "d", "o", "w", "n", "w", "a", "r", "d">>, <<" ", "D", "o", "w", "n", " ">> }
TrendNumbers == { <<>>, <<"1", "0", "0">>, <<"5", "0">>, <<"1", ",", "0", "0", "0">> }
Percents == { <<>>, <<"%">> }

VolumeCells ==
  [number : VolumeNumbers, scale : Scales, plus : Pluses, middle : Middles,
   trend : TrendNumbers, percent : Percents]

TextOf(p) == p.number \o p.scale \o p.plus \o p.middle \o p.trend \o p.percent

\* parseComplexSearchVolume(arg[1])
ParseComplexSearchVolumeCall ==
  /\ arg # <<>> /\ ret = <<>>
  /\ ret' = parseComplexSearchVolume(arg[1])
  /\ UNCHANGED << scrapedVars, mpc, sinkVars, enrichVars, arg >>

\* The texts of a cell that holds no search volume: nothing, letters, or a
\* separator alone.
MalformedTexts == { <<>>, <<"a">>, <<"a", "b", "c">>, <<",">> }

MalformedCells ==
  [number : MalformedTexts, scale : {<<>>}, plus : {<<>>}, middle : {<<>>},
   trend : {<<>>}, percent : {<<>>}]

VolumeInit ==
  /\ Uncalled
  /\ arg \in { << TextOf(p), p >> : p \in VolumeCells \cup MalformedCells }
  /\ ret = <<>>

VolumeSpec == VolumeInit /\ [][ParseComplexSearchVolumeCall]_vars

----------------------------------------------------------------------------

Next ==
  \/ Main
  \/ SaveResultsToSupabase
  \/ ScrapeAll
  \/ Initialize
  \/ NextCountry
  \/ ScrapeCountry
  \/ ScrapeCountryReturned
  \/ NewPage
  \/ Goto
  \/ WaitForTable
  \/ Parse
  \/ FindNext
  \/ EvalDisabled
  \/ Capture
  \/ Click
  \/ WaitChanged
  \/ WaitTimeout
  \/ Render
  \/ ClosePage
  \/ PushResult
  \/ Delay
  \/ Cleanup
  \/ Stop

Spec == Init /\ [][Next]_vars

\* Every awaited call is bounded by a time-out (config.timeout, 10 s, 15 s), so a
\* suspended call always resumes: some step is taken whenever one is possible.
LiveSpec == Spec /\ WF_vars(Next)

----------------------------------------------------------------------------
(* What a run has shown and extracted so far *)

\* The records of the well-formed rows of content page c, whose rows are rows.
PageRecords(m, c, rows) ==
  LET ok == SelectSeq([i \in 1..Len(rows) |-> i], LAMBDA i : rows[i] \in {"ok", "lasted"})
  IN  [k \in 1..Len(ok) |-> <<m, c, ok[k], StatusOf(rows[ok[k]])>>]

\* The records the k-th extraction of the run found on the page it read.
ExtractedAt(k) ==
  IF seen[k] = Unread THEN <<>>
  ELSE PageRecords(result.country, seen[k], shown[seen[k]])

RECURSIVE ExtractedUpTo(_)
ExtractedUpTo(k) == IF k = 0 THEN <<>> ELSE ExtractedUpTo(k - 1) \o ExtractedAt(k)

\* The records of the site's content pages 1..k, in page order, each page once.
RECURSIVE RecordsOfPages(_)
RecordsOfPages(k) ==
  IF k = 0 THEN <<>>
  ELSE RecordsOfPages(k - 1) \o PageRecords(result.country, k, shown[k])

\* Every page index of the run read the content page of the same number.
AdvancedNormally == seen = [k \in 1..Len(seen) |-> k]

\* scrapeCountry has returned result and scrapeAll has not taken it yet.
Returned == apc = "country" /\ cpc = "returned"

\* The pagination loop is running (between the initial load and the finally).
InLoop == cpc \in {"waitTable", "parse", "findNext", "evalDisabled", "capture", "click", "wait"}

\* A step of scrapeCountry itself (not of the site, nor a call of stop()).
ScraperStep == cpc' # cpc

----------------------------------------------------------------------------
(* Claims *)

\* C1: whatever the pages show, and even when the next-page control is always
\* enabled and the content changes after every click, one run extracts at most
\* maxPages pages (the page index never passes maxPages + 1, and once it passes
\* maxPages the loop has been left), and a run that entered the pagination loop
\* leaves it.
C1_Bound ==
  /\ Len(seen) <= maxPages
  /\ currentPage <= maxPages + 1
  /\ InLoop => currentPage <= maxPages

\* C1: the bound always holds and the pagination loop, once entered, is left.
C1_CircuitBreaker == []C1_Bound /\ (InLoop ~> ~ InLoop)

\* C1 witness: a run over a site that never disables its control and changes
\* content after every click has returned after extracting maxPages pages.
C1_Witness ==
  /\ Returned /\ reason = "page-cap"
  /\ Len(seen) = maxPages /\ AdvancedNormally
  /\ clicks = maxPages
  /\ Len(result.trends) = maxPages

\* C2: when the next-page control is absent on page K, the run leaves the loop
\* at that step without a click on page K and with success=true, and what it
\* returns, every earlier page having advanced normally, is exactly the records
\* of pages 1..K in page order, each page's once.
C2_AbsentStep ==
  (cpc = "findNext" /\ dom.next = "absent" /\ ScraperStep /\ reason' # "error")
    => /\ cpc' = "close"
       /\ reason' = "no-control"
       /\ result'.success = TRUE
       /\ clicks' = clicks /\ currentPage' = currentPage

C2_AbsentResult ==
  (Returned /\ reason = "no-control")
    => /\ result.success = TRUE /\ result.error = NULL
       /\ Len(seen) = currentPage
       /\ lastClickPage < currentPage
       /\ AdvancedNormally => result.trends = RecordsOfPages(currentPage)

\* C2: the step on an absent control and the result it leads to.
C2_ControlAbsent == [][C2_AbsentStep]_vars /\ []C2_AbsentResult

\* C2 witness: a two-page run of a site with differing pages ended on page 2,
\* where the control was absent, with three records or more.
C2_Witness ==
  /\ Returned /\ reason = "no-control"
  /\ currentPage = 2 /\ AdvancedNormally
  /\ Len(result.trends) >= 3

\* C3: when the next-page control is present but disabled on page K, the run
\* performs no click on page K, leaves the loop with success=true, and returns
\* records of pages 1..K only: exactly those, each once, when every earlier page
\* advanced normally.
C3_DisabledStep ==
  (cpc = "evalDisabled" /\ dom.next = "disabled" /\ ScraperStep /\ reason' # "error")
    => /\ cpc' = "close"
       /\ reason' = "disabled"
       /\ result'.success = TRUE
       /\ clicks' = clicks /\ currentPage' = currentPage

C3_DisabledResult ==
  (Returned /\ reason = "disabled")
    => /\ result.success = TRUE /\ result.error = NULL
       /\ lastClickPage < currentPage
       /\ clicks = currentPage - 1
       /\ \A k \in 1..Len(result.trends) : result.trends[k][2] \in 1..currentPage
       /\ AdvancedNormally => result.trends = RecordsOfPages(currentPage)

\* C3: the step on a disabled control and the result it leads to.
C3_ControlDisabled == [][C3_DisabledStep]_vars /\ []C3_DisabledResult

\* C3 witness: the three-page fixture whose page 3 has a disabled control has
\* returned the records of pages 1 to 3.
C3_Witness ==
  /\ Returned /\ reason = "disabled"
  /\ currentPage = 3 /\ seen = <<1, 2, 3>>
  /\ clicks = 2
  /\ result.trends = << <<result.country, 1, 1, "active">>,
                        <<result.country, 2, 1, "active">>,
                        <<result.country, 3, 1, "active">> >>

\* C4 as stated: a run whose first page yielded zero records returns
\* success=false.
C4_Original ==
  (Returned /\ Len(seen) >= 1 /\ ExtractedAt(1) = <<>>) => result.success = FALSE

\* C4 amended: zero records on the first page do not end the run: it goes on to
\* look for the next-page control, and it returns success=true unless an awaited
\* call throws later.
C4_FirstEmptyStep ==
  (cpc = "parse" /\ currentPage = 1 /\ ScraperStep
     /\ ParseTrendsFromPage(result.country, dom) = <<>>)
    => cpc' = "findNext" /\ result' = result /\ reason' = reason

C4_FirstEmptyResult ==
  (Returned /\ Len(seen) >= 1 /\ ExtractedAt(1) = <<>>)
    => result.success = (reason # "error")

\* C4 amended: the step on an empty first page and the result of such a run.
C4_FirstPageEmpty == [][C4_FirstEmptyStep]_vars /\ []C4_FirstEmptyResult

\* C4 witness: a run whose only page had no record and no next-page control has
\* returned success=true with no record.
C4_Witness ==
  /\ Returned /\ seen = <<1>> /\ ExtractedAt(1) = <<>>
  /\ reason = "no-control"
  /\ result.success = TRUE /\ result.trends = <<>>

C7_TimeoutStep ==
  (cpc = "wait" /\ ScraperStep /\ ~ ContentChanged(dom, firstRowTextBeforeClick))
    => /\ cpc' = "close"
       /\ reason' = "advance-timeout"
       /\ currentPage' = currentPage
       /\ result'.success = TRUE /\ result'.error = NULL
       /\ result'.trends = allTrends

C7_TimeoutResult ==
  (Returned /\ reason = "advance-timeout")
    => /\ result.success = TRUE /\ result.error = NULL
       /\ currentPage = Len(seen) /\ lastClickPage = currentPage
       /\ result.trends = ExtractedUpTo(Len(seen))

\* C7: the step on a time-out of the wait and the result it leads to.
C7_AdvanceTimeout == [][C7_TimeoutStep]_vars /\ []C7_TimeoutResult

\* C7 witness: a run timed out waiting for page 3 and has returned the records
\* of pages 1 and 2.
C7_Witness ==
  /\ Returned /\ reason = "advance-timeout"
  /\ seen = <<1, 2>> /\ clicks = 2
  /\ Len(result.trends) >= 2

\* C8 as stated: on every way out of scrapeCountry the returned result holds the
\* full sequence of records accumulated from the pages already extracted, with
\* a success flag and, when it is false, an error string.
C8_PartialResultsKept ==
  Returned
    => /\ result.trends = allTrends
       /\ result.success \in BOOLEAN
       /\ result.success = FALSE => result.error # NULL

\* C9 as stated: no advance (click and content-change wait) is invoked once the
\* page index has reached maxPages, and a run ended by the cap returns
\* success=true with all records collected so far.
C9_NoAdvanceAtCap ==
  /\ lastClickPage < maxPages
  /\ cpc \in {"click", "wait"} => currentPage < maxPages
  /\ (Returned /\ reason = "page-cap")
       => result.success = TRUE /\ result.trends = ExtractedUpTo(Len(seen))

\* C10 as stated: absent stop(), and the browser having launched, scrapeAll
\* returns one result per configured market in configuration order, whichever
\* markets failed, and a failed market's result has success=false, an error
\* string and no effect on the others.
C10_BatchIsolation ==
  (apc = "done" /\ ~ stopCalled /\ caught # "launch")
    => /\ Len(results) = Len(countries)
       /\ \A i \in 1..Len(results) :
            /\ results[i].country = countries[i]
            /\ results[i].success = (results[i].error = NULL)
            /\ \A k \in 1..Len(results[i].trends) :
                 results[i].trends[k][1] = countries[i]

\* C11 as stated: every page opened by scrapeCountry is closed when scrapeCountry
\* is over, however it ended, and once scrapeAll has returned the browser it
\* launched is closed and no page is open.
C11_ScopedRelease ==
  /\ cpc \in {"idle", "returned"} => page # "open"
  /\ apc = "done" => browser = NULL /\ page # "open"

\* C15 as stated: when the upsert of a run with rows to store fails (the run is
\* over and the table holds none of them), main returns success=false with an
\* error.
C15_SinkFailureSurfaced ==
  (mpc = "done" /\ TrendsToInsert(results) # <<>> /\ upserted = <<>>)
    => mainResult.success = FALSE /\ mainResult.error # NULL

\* The table is written only in a step taken after scrapeAll has returned.
C16_WriteStep == [][upserted' # upserted => apc = "done" /\ cpc = "idle"]_vars

\* The table holds nothing while scrapeAll runs, and afterwards only the active
\* rows of the results scrapeAll returned.
C16_Buffered ==
  /\ apc # "done" => upserted = <<>>
  /\ upserted # <<>> => upserted = Upsert(<<>>, TrendsToInsert(results))

WellFormed(kind) == kind \in {"ok", "lasted"}

Contains(s, pat) == \E i \in 1..Len(s) : MatchLen(s, i, pat, 1) > 0

\* The output has no white space at either end.
C19_Trimmed ==
  (ret # <<>> /\ ret[1] # <<>>)
    => Head(ret[1]) \notin Whitespace /\ ret[1][Len(ret[1])] \notin Whitespace

\* C19: the output of cleanBreakdown holds none of "+ N more", "Search term",
\* "query_stats" and "Explore", and has no white space at either end.
C19_NoArtifactLeft ==
  ret # <<>>
    => /\ ~Contains(ret[1], MorePattern)
       /\ ~Contains(ret[1], SearchTermPattern)
       /\ ~Contains(ret[1], QueryStatsPattern)
       /\ ~Contains(ret[1], ExplorePattern)
       /\ C19_Trimmed

\* The text is a magnitude token followed by a delta token whose start can be
\* told: the number is followed by K, M, a plus sign or the text of an icon.
TwoTokens(p) ==
  /\ p.trend # <<>>
  /\ p.scale # <<>> \/ p.plus # <<>> \/ p.middle # <<>>

\* The number of the magnitude token times its multiplier, truncated.
Magnitude(p) ==
  LET d == DecimalOf(WithoutCommas(p.number))
      multiplier == IF p.scale = <<"K">> THEN 1000
                    ELSE IF p.scale = <<"M">> THEN 1000000 ELSE 1
  IN  (d.n * multiplier) \div (10 ^ d.k)

\* The number of the delta token, negative when the text between the tokens
\* holds "down".
Delta(p) ==
  IF IncludesDown(p.middle) THEN 0 - parseInt(WithoutCommas(p.trend))
  ELSE parseInt(WithoutCommas(p.trend))

\* C20: parseComplexSearchVolume of a magnitude token followed by a delta token
\* returns the magnitude (number times 1000 for K, 1,000,000 for M, truncated)
\* and the delta, negative exactly when the text between them holds "down".
C20_Decomposed ==
  (ret # <<>> /\ TwoTokens(arg[2])) => ret = << Magnitude(arg[2]), Delta(arg[2]) >>

\* C18 as stated: the row container not appearing within its time-out never
\* fails the market run.
C18_ContainerTimeoutIsEmptyPage ==
  Returned => result.error # "waitForSelector"

\* An extraction never raises: the step that follows it goes on to the next-page
\* control or leaves the loop by the empty-page break, and an extraction whose
\* row listing failed counts as an empty page (break after page 1).
C18_ExtractStep ==
  [][(cpc = "parse" /\ cpc' # cpc)
       => /\ reason' \in {"none", "empty"}
          /\ result'.error = NULL
          /\ seen'[Len(seen')] = Unread
               => IF currentPage > 1
                    THEN reason' = "empty" /\ result'.success /\ result'.trends = allTrends
                    ELSE cpc' = "findNext"]_vars

\* The row container not appearing fails the market run: success=false with an
\* error.
C18_ContainerTimeoutFails ==
  (Returned /\ result.error = "waitForSelector")
    => result.success = FALSE /\ reason = "error"

\* C18 amended: a total failure inside the extractor is reported as an empty
\* page and handled by the empty-page break; the row container not appearing
\* within its time-out is an exception that fails the market run.
C18_ExtractorFailureIsEmptyPage == C18_ExtractStep /\ []C18_ContainerTimeoutFails

C18_Witness ==
  /\ Returned /\ reason = "empty"
  /\ Len(seen) = 2 /\ seen[1] # Unread /\ seen[2] = Unread
  /\ result.success /\ Len(result.trends) >= 1

\* The start of the batch that holds position k of trendsToAnalyze.
BatchStart(k) == ((k - 1) \div BATCH_SIZE) * BATCH_SIZE

\* The calls made for the batch starting at i.
Attempts(i) == {p \in 1..Len(calls) : calls[p].start = i}

\* The run has left the call p behind: a later call was made, or the batch loop
\* went on to its delay or ended.
MovedOn(p) == p < Len(calls) \/ mpc \in {"delay", "save", "done"}

\* C12 as stated: a batch whose call returned null is sent again (up to a fixed
\* bound) before the run moves on; a batch all of whose attempts failed leaves
\* its records without a score; and a run that completes has sent every batch
\* and written its output.
C12_FailedBatchRetried ==
  /\ \A p \in 1..Len(calls) :
       (~ calls[p].ok /\ MovedOn(p)) => Cardinality(Attempts(calls[p].start)) >= 2
  /\ \A k \in 1..Len(trendsToAnalyze) :
       (\A p \in Attempts(BatchStart(k)) : ~ calls[p].ok)
         => trendsToAnalyze[k].analysis = NoAnalysis
  /\ (mpc = "done" /\ mainResult.success)
       => /\ \A k \in 1..Len(trendsToAnalyze) : Attempts(BatchStart(k)) # {}
          /\ Len(results) > 0 => outFile # <<>>

\* C13 as stated: an analysis attached to a record is the response item whose id
\* is the record's request id, with the score given to that record's title.
C13_MergedByKey ==
  \A k \in 1..Len(trendsToAnalyze) :
    trendsToAnalyze[k].analysis # NoAnalysis
      => /\ trendsToAnalyze[k].analysis.id = RequestId(k, BatchStart(k))
         /\ trendsToAnalyze[k].analysis.score = AiScore(trendsToAnalyze[k].trend)

\* The positions of trendsToAnalyze whose batch is over.
BatchesOver == IF mpc = "delay" THEN bi + BATCH_SIZE ELSE bi

\* C14 as stated: whenever a batch is over (the next one is about to be sent, or
\* the run has stopped), the cache file holds, under its key, every score the
\* batches so far obtained.
C14_CachePersisted ==
  mpc \in {"delay", "batch", "save", "done"}
    => \A k \in 1..Len(trendsToAnalyze) :
         (k <= BatchesOver /\ trendsToAnalyze[k].analysis # NoAnalysis)
           => /\ Cached(diskCache, trendsToAnalyze[k].trend)
              /\ diskCache[CacheKey(trendsToAnalyze[k].trend)] = trendsToAnalyze[k].analysis

\* A market run has returned success=true with no record and no error: what
\* its caller gets is the same whatever made the loop end.
ReturnedEmpty == Returned /\ result.success /\ result.trends = <<>> /\ result.error = NULL

\* C22 as stated: what a run returns tells why it ended, so the runs of a batch
\* that return the same thing (success, no record, no error) ended for one and
\* the same reason.
C22_ReasonReported ==
  \/ [](ReturnedEmpty => reason = "no-control")
  \/ [](ReturnedEmpty => reason = "disabled")
  \/ [](ReturnedEmpty => reason = "empty")
  \/ [](ReturnedEmpty => reason = "page-cap")
  \/ [](ReturnedEmpty => reason = "advance-timeout")

\* The call of scrapeCountry in progress has loaded its first page.
InRun == apc = "country" /\ currentPage >= 1

\* No advance is in flight outside the wait: every click made has been followed
\* by a completed wait and an increment, but for the one of the current page
\* while the run is suspended at its wait.
C23_OneInFlight ==
  InRun
    => /\ cpc = "wait" => clicks = currentPage /\ lastClickPage = currentPage
       /\ cpc \in {"waitTable", "parse", "findNext", "evalDisabled", "capture", "click"}
            => clicks = currentPage - 1

\* Within a run the page index stays or grows by one, and it grows in the step
\* that completes the wait that followed the one click made on that page.
C23_IndexStep ==
  [][(InRun /\ currentPage' >= 1)
       => /\ currentPage' \in {currentPage, currentPage + 1}
          /\ currentPage' = currentPage + 1
               => /\ cpc = "wait"
                  /\ clicks = currentPage /\ clicks' = clicks
                  /\ lastClickPage = currentPage]_vars

\* C23: the page index changes only by +1, each increment follows one click and
\* one completed wait, at most one advance is in flight, and an extraction
\* starts with no advance in flight.
C23_SequentialAdvance == []C23_OneInFlight /\ C23_IndexStep

C23_Witness ==
  /\ InRun /\ cpc = "parse"
  /\ currentPage = 2 /\ clicks = 1 /\ lastClickPage = 1
  /\ seen = <<1>> /\ dom.content = 2

\* C30 as stated: an extraction follows a change of the page content, so no
\* content page is read under two consecutive page indices and no row is
\* appended to the accumulated records twice.
C30_NoPageTwice ==
  InRun
    => /\ \A k \in 1..(Len(seen) - 1) : seen[k] # Unread => seen[k + 1] # seen[k]
       /\ \A i, j \in 1..Len(allTrends) : i # j => allTrends[i] # allTrends[j]

\* C26 as stated: parseComplexSearchVolume returns for every string, and the
\* volume it returns is a non-negative integer, never NaN.
C26_MagnitudeIsNatural == ret # <<>> => ret[1] \in Nat

\* A cell that holds a magnitude token alone: digits, K or M, a plus sign.
MagnitudeOnly(p) ==
  /\ p.number # <<>> /\ \A i \in 1..Len(p.number) : p.number[i] \in Digit
  /\ p.middle = <<>> /\ p.trend = <<>> /\ p.percent = <<>>

\* C27 as stated: of a magnitude token alone parseComplexSearchVolume returns
\* the whole value as the volume and 0 as the trend.
C27_WholeMagnitude ==
  (ret # <<>> /\ MagnitudeOnly(arg[2])) => ret = << Magnitude(arg[2]), 0 >>

\* A call of scrapeCountry has its result, within scrapeAll or for a client.
HasResult == cpc = "returned"

\* C28: every result of scrapeCountry is consistent: success holds exactly when
\* no error is set, a failed result has no trends, and a call on a scraper
\* without a browser fails with an error and opens no page.
C28_ResultConsistent ==
  HasResult
    => /\ result.success <=> result.error = NULL
       /\ ~result.success => result.trends = <<>>
       /\ browser = NULL => ~result.success /\ result.error # NULL /\ page = NULL

\* A call fails after it had extracted records.
C28_Witness ==
  HasResult /\ ~result.success /\ result.error # NULL /\ allTrends # <<>>

\* Once stop() was called no call of scrapeCountry is started.
C29_NoStartAfterStop == [][stopCalled => ~(apc # "country" /\ apc' = "country")]_vars

\* scrapeAll has returned the results of the markets it ran, in their order.
C29_ResultsOfMarketsRun ==
  apc = "done"
    => /\ Len(results) <= Len(countries)
       /\ \A i \in 1..Len(results) : results[i].country = countries[i]

\* scrapeAll has returned with the status IDLE and the browser closed.
C29_IdleAndClosed == apc = "done" => status = "IDLE" /\ browser = NULL

\* C29 as stated: after stop() no further scrapeCountry is started and scrapeAll
\* returns the results of the markets already run; and however scrapeAll ends
\* (normally, stopped, or by a thrown error) the status is IDLE and the browser
\* is closed once it has returned.
C29_StopHonoured ==
  /\ C29_NoStartAfterStop
  /\ [](C29_ResultsOfMarketsRun /\ C29_IdleAndClosed)

\* The terms of a breakdown string: its pieces between ", ".
RECURSIVE TermsFrom(_, _, _)
TermsFrom(s, i, term) ==
  IF i > Len(s) THEN << term >>
  ELSE IF i < Len(s) /\ s[i] = "," /\ s[i + 1] = " "
    THEN << term >> \o TermsFrom(s, i + 2, <<>>)
  ELSE TermsFrom(s, i + 1, Append(term, s[i]))

TermsOf(s) == IF s = <<>> THEN <<>> ELSE TermsFrom(s, 1, <<>>)

\* The cleaned terms of a breakdown array that are not empty, in their order.
CleanedTerms(breakdown) ==
  SelectSeq([i \in 1..Len(breakdown) |-> cleanBreakdown(breakdown[i])],
            LAMBDA term : term # <<>>)

\* C25 as stated: the terms of the breakdown of a record are the cleaned terms
\* of the row, each once, in the order of their first occurrence; no two of
\* them are equal.
C25_DuplicateFree ==
  ret # <<>>
    => /\ \A i, j \in 1..Len(TermsOf(ret[1])) :
            i # j => TermsOf(ret[1])[i] # TermsOf(ret[1])[j]
       /\ TermsOf(ret[1]) = UniqueTerms(CleanedTerms(arg[1]))

\* The calls of runScrapingJob that are not over.
Running == { j \in 1..Len(jobs) : jobs[j] # "over" }

\* C24 as stated, for the scheduler: a tick that fires while the job of an
\* earlier tick is running starts no second job, so at most one job runs.
C24_NoOverlappingJobs == Cardinality(Running) <= 1

\* The trends saveCsvToFile has to write: those of the results with success.
RECURSIVE WrittenFrom(_, _)
WrittenFrom(rs, i) ==
  IF i > Len(rs) THEN <<>>
  ELSE (IF rs[i].success THEN rs[i].trends ELSE <<>>) \o WrittenFrom(rs, i + 1)

\* C21 as stated: the file written by saveCsvToFile, read by parseCsvFile, has
\* one data row per trend of the successful results, whose title, search volume,
\* time started, breakdown and status are those of the trend.
C21_RoundTrip ==
  Len(ret) = 2
    => LET written == WrittenFrom(arg[1], 1)
           read == ret[2].rows
       IN  /\ Len(read) = Len(written)
           /\ \A k \in 1..Len(read) :
                /\ Len(read[k]) = Len(headers)
                /\ read[k][3] = written[k].title
                /\ read[k][4] = written[k].searchVolume
                /\ read[k][5] = written[k].timeStarted
                /\ read[k][6] = written[k].breakdown
                /\ read[k][7] = written[k].status

====
